---------------------------- MODULE Spec2Model ----------------------------
(***************************************************************************)
(* Model of the Cognidoc RAG engine (src/backend/rag_engine.py): the       *)
(* RAGEngine object, its in-memory knowledge base (demo_documents), its    *)
(* document metadata map (documents), the external vector index, and the   *)
(* coroutines add_document / query / get_status, which interleave at      *)
(* their await points.                                                     *)
(*                                                                         *)
(* Texts are sequences of one-character strings, so that str.lower(),      *)
(* str.split() and the substring test `keyword in query_lower` are         *)
(* computed, not assumed.                                                  *)
(***************************************************************************)
EXTENDS Integers, Sequences, FiniteSets, TLC

VARIABLES
    gemini_api_key,    \* bool(self.gemini_api_key); self.llm is set iff TRUE
    pinecone_api_key,  \* bool(self.pinecone_api_key)
    demo_mode,         \* self.demo_mode
    demo_documents,    \* self.demo_documents: sequence of chunks
    documents,         \* self.documents: filename -> record
    vectorstore,       \* chunks held by the external vector index
    tasks,             \* the coroutine running for each request slot
    requests           \* the HTTP handler running for each request slot

vars == <<gemini_api_key, pinecone_api_key, demo_mode, demo_documents,
          documents, vectorstore, tasks, requests>>

---------------------------------------------------------------------------
(* Bounds and program constants *)

\* Total number of chunks the stores may hold (caps the growth of the model).
MaxChunks == 4

\* relevant_chunks[:3]
TopK == 3

\* search_kwargs={"k": 5}
RetrieverK == 5

\* Request slots: coroutines that may be in flight at the same time.
Tasks == {"t1", "t2"}

Filenames == {"a.pdf", "b.pdf"}

\* The (file, filename) pairs that are uploaded.
Uploads ==
    { <<"tesla", "a.pdf">>, <<"manual", "b.pdf">>, <<"blank", "b.pdf">>,
      <<"scanned", "a.pdf">>, <<"corrupt", "a.pdf">> }

---------------------------------------------------------------------------
(* Texts *)

\* "Tesla revenue grew"
TeslaText ==
    <<"T","e","s","l","a"," ","r","e","v","e","n","u","e"," ","g","r","e","w">>

\* "Reset a console"
ResetText ==
    <<"R","e","s","e","t"," ","a"," ","c","o","n","s","o","l","e">>

\* "hold a reset key"
HoldText ==
    <<"h","o","l","d"," ","a"," ","r","e","s","e","t"," ","k","e","y">>

\* "Tesla reset a console key": 5 words
Q5 ==
    <<"T","e","s","l","a"," ","r","e","s","e","t"," ","a"," ",
      "c","o","n","s","o","l","e"," ","k","e","y">>

\* "so how do i reset a tesla in my car": 10 words
Q10 ==
    <<"s","o"," ","h","o","w"," ","d","o"," ","i"," ","r","e","s","e","t"," ",
      "a"," ","t","e","s","l","a"," ","i","n"," ","m","y"," ","c","a","r">>

\* whitespace only: zero words
QBlank == <<" ">>

\* "why": no keyword, shares no word with any page
QWhy == <<"w","h","y">>

\* "Teslas": contains the keyword tesla, shares no word with any page
QTeslas == <<"T","e","s","l","a","s">>

Questions == {Q5, Q10, QBlank, QWhy, QTeslas}

\* What PyPDFLoader.load returns for each file: pages numbered from 0.
\* "blank" has no pages; "scanned" has one page without a text layer;
\* "corrupt" makes the loader raise.
Files == {"tesla", "manual", "blank", "scanned", "corrupt"}

FilePages ==
    [f \in Files |->
        CASE f = "tesla"   -> << [page |-> 0, page_content |-> TeslaText] >>
          [] f = "manual"  -> << [page |-> 0, page_content |-> ResetText],
                                 [page |-> 1, page_content |-> HoldText] >>
          [] f = "scanned" -> << [page |-> 0, page_content |-> << >>] >>
          [] OTHER         -> << >> ]

PageTexts == {TeslaText, ResetText, HoldText, << >>}

Whitespace == {" ", "\n", "\t"}

\* str.lower(), one character
LowerChar(c) ==
    CASE c = "T" -> "t"
      [] c = "R" -> "r"
      [] OTHER   -> c

\* str.lower()
lower(text) == [i \in 1..Len(text) |-> LowerChar(text[i])]

\* str.split(): the maximal runs of non-whitespace characters, in order
RECURSIVE SplitFrom(_, _, _, _)
SplitFrom(text, i, cur, acc) ==
    IF i > Len(text)
    THEN IF cur = << >> THEN acc ELSE Append(acc, cur)
    ELSE IF text[i] \in Whitespace
         THEN SplitFrom(text, i + 1, << >>,
                        IF cur = << >> THEN acc ELSE Append(acc, cur))
         ELSE SplitFrom(text, i + 1, Append(cur, text[i]), acc)

split(text) == SplitFrom(text, 1, << >>, << >>)

\* set(seq)
SetOf(seq) == {seq[i] : i \in DOMAIN seq}

\* set(text.lower().split())
WordSet(text) == SetOf(split(lower(text)))

\* `kw in text` on strings
IsSubstring(kw, text) ==
    \E i \in 0..(Len(text) - Len(kw)) : SubSeq(text, i + 1, i + Len(kw)) = kw

\* The word sets of the model's texts, computed once.
QueryWords == [q \in Questions |-> WordSet(q)]

ContentWords == [t \in PageTexts |-> WordSet(t)]

---------------------------------------------------------------------------
(* add_document *)

\* loader.load in a worker thread
Load(file) ==
    IF file = "corrupt"
    THEN [raised |-> TRUE, pages |-> << >>]
    ELSE [raised |-> FALSE, pages |-> FilePages[file]]

\* RecursiveCharacterTextSplitter.split_documents on pages shorter than
\* chunk_size (1000 characters; every page text of the model is): a page
\* with text gives one chunk carrying the page's metadata, a page without
\* any word gives none.
RECURSIVE split_documents(_)
split_documents(pages) ==
    IF pages = << >> THEN << >>
    ELSE LET p == Head(pages)
         IN  (IF split(p.page_content) = << >>
              THEN << >>
              ELSE << p >>) \o split_documents(Tail(pages))

\* for i, chunk in enumerate(chunks): chunk.metadata.update({...})
AddMetadata(chunks, filename) ==
    [i \in 1..Len(chunks) |->
        [page_content |-> chunks[i].page_content,
         source       |-> filename,
         chunk_id     |-> i - 1,
         page_number  |-> chunks[i].page,
         total_chunks |-> Len(chunks)]]

\* An extend that loses the last chunk.
ExtendDropsLast(list, chunks) ==
    list \o SubSeq(chunks, 1, Len(chunks) - 1)

\* list.extend
Extend(list, chunks) == list \o chunks

\* self.documents[filename] = {...}
SetItem(dict, key, value) ==
    [k \in DOMAIN dict \cup {key} |-> IF k = key THEN value ELSE dict[k]]

DocumentRecord(chunks, pages) ==
    [chunks |-> Len(chunks), pages |-> Len(pages), status |-> "processed"]

Idle == [pc |-> "idle", op |-> "none"]

\* chunks that calls in flight may still add
RECURSIVE PendingChunks(_)
PendingChunks(S) ==
    IF S = {} THEN 0
    ELSE LET t == CHOOSE x \in S : TRUE
         IN  (IF tasks[t].op = "add_document" /\ tasks[t].pc \in {"load", "store"}
              THEN Len(FilePages[tasks[t].file]) ELSE 0)
             + PendingChunks(S \ {t})

\* add_document is called and suspends at `await asyncio.to_thread(loader.load)`
AddDocumentCall(t, file, filename) ==
    /\ tasks[t].pc = "idle"
    /\ Len(demo_documents) + Len(vectorstore) + PendingChunks(Tasks)
         + Len(FilePages[file]) <= MaxChunks
    /\ tasks' = [tasks EXCEPT ![t] =
                    [pc |-> "load", op |-> "add_document",
                     file |-> file, filename |-> filename]]
    /\ UNCHANGED <<gemini_api_key, pinecone_api_key, demo_mode,
                   demo_documents, documents, vectorstore>>

AddRaised(t) ==
    [pc |-> "done", op |-> "add_document",
     filename |-> tasks[t].filename, raised |-> TRUE]

AddReturned(t) ==
    [pc |-> "done", op |-> "add_document",
     filename |-> tasks[t].filename, raised |-> FALSE]

\* The loader returns; add_document runs on to its next await (production
\* mode) or to its end (demo mode).
AddDocumentLoaded(t) ==
    /\ tasks[t].pc = "load"
    /\ LET loaded   == Load(tasks[t].file)
           pages    == loaded.pages
           filename == tasks[t].filename
           chunks   == AddMetadata(split_documents(pages), filename)
       IN  IF loaded.raised \/ pages = << >>
           THEN /\ tasks' = [tasks EXCEPT ![t] = AddRaised(t)]
                /\ UNCHANGED <<demo_documents, documents, vectorstore>>
           ELSE IF demo_mode
           THEN /\ demo_documents' = Extend(demo_documents, chunks)
                /\ documents' = SetItem(documents, filename,
                                        DocumentRecord(chunks, pages))
                /\ tasks' = [tasks EXCEPT ![t] = AddReturned(t)]
                /\ UNCHANGED vectorstore
           ELSE /\ tasks' = [tasks EXCEPT ![t] =
                                [pc |-> "store", op |-> "add_document",
                                 file |-> tasks[t].file, filename |-> filename,
                                 chunks |-> chunks, pages |-> Len(pages)]]
                /\ UNCHANGED <<demo_documents, documents, vectorstore>>
    /\ UNCHANGED <<gemini_api_key, pinecone_api_key, demo_mode>>
    /\ UNCHANGED requests

\* `asyncio.to_thread(self.vectorstore.add_documents, chunks)`: the worker
\* thread writes the chunks to the index while the coroutine is suspended.
AddDocumentStored(t) ==
    /\ tasks[t].pc = "store"
    /\ vectorstore' = vectorstore \o tasks[t].chunks
    /\ tasks' = [tasks EXCEPT ![t].pc = "stored"]
    /\ UNCHANGED <<gemini_api_key, pinecone_api_key, demo_mode,
                   demo_documents, documents>>
    /\ UNCHANGED requests

\* The coroutine is resumed after the await: the metadata record is written
\* and add_document returns True.
AddDocumentRecorded(t) ==
    /\ tasks[t].pc = "stored"
    /\ documents' = SetItem(documents, tasks[t].filename,
                            [chunks |-> Len(tasks[t].chunks),
                             pages  |-> tasks[t].pages,
                             status |-> "processed"])
    /\ tasks' = [tasks EXCEPT ![t] = AddReturned(t)]
    /\ UNCHANGED <<gemini_api_key, pinecone_api_key, demo_mode,
                   demo_documents, vectorstore>>
    /\ UNCHANGED requests

\* The external add_documents raises; the index may have taken any prefix of
\* the chunks before it did.
AddDocumentStoreFailed(t) ==
    /\ tasks[t].pc = "store"
    /\ \E k \in 0..Len(tasks[t].chunks) :
          vectorstore' = vectorstore \o SubSeq(tasks[t].chunks, 1, k)
    /\ tasks' = [tasks EXCEPT ![t] = AddRaised(t)]
    /\ UNCHANGED <<gemini_api_key, pinecone_api_key, demo_mode,
                   demo_documents, documents>>
    /\ UNCHANGED requests

\* The caller takes the result; the slot is free again.
Return(t) ==
    /\ tasks[t].pc = "done"
    /\ tasks' = [tasks EXCEPT ![t] = Idle]
    /\ UNCHANGED <<gemini_api_key, pinecone_api_key, demo_mode,
                   demo_documents, documents, vectorstore>>
    /\ UNCHANGED requests

---------------------------------------------------------------------------
(* query *)

Tesla == <<"t","e","s","l","a">>

Revenue == <<"r","e","v","e","n","u","e">>

Reset == <<"r","e","s","e","t">>

Console == <<"c","o","n","s","o","l","e">>

\* demo_responses, in the dict's order
DemoKeywords == <<Tesla, Revenue, Reset, Console>>

DemoSource(document, page_number, chunk_id) ==
    [document |-> document, page_number |-> page_number,
     chunk_id |-> chunk_id, relevance |-> "high"]

DemoResponses ==
    << [answer  |-> "demo_tesla",
        sources |-> << DemoSource("Tesla_2023_Annual_Report.pdf", 45, 12) >>],
       [answer  |-> "demo_revenue",
        sources |-> << DemoSource("Tesla_2023_Annual_Report.pdf", 45, 12) >>],
       [answer  |-> "demo_reset",
        sources |-> << DemoSource("Tesla_Model_X_Manual.pdf", 23, 7) >>],
       [answer  |-> "demo_console",
        sources |-> << DemoSource("Tesla_Model_X_Manual.pdf", 23, 7) >>] >>

DefaultResponse ==
    [answer     |-> "fallback",
     sources    |-> << >>,
     suggestion |-> "Try queries about Tesla financials"]

\* The keyword test without query.lower().
_get_demo_response_case_sensitive(query) ==
    LET hits == {i \in DOMAIN DemoKeywords : IsSubstring(DemoKeywords[i], query)}
    IN  IF hits = {} THEN DefaultResponse
        ELSE DemoResponses[CHOOSE i \in hits : \A j \in hits : i <= j]

\* _get_demo_response: the first keyword contained in the lowered query wins
_get_demo_response(query) ==
    LET query_lower == lower(query)
        hits == {i \in DOMAIN DemoKeywords :
                    IsSubstring(DemoKeywords[i], query_lower)}
    IN  IF hits = {} THEN DefaultResponse
        ELSE DemoResponses[CHOOSE i \in hits : \A j \in hits : i <= j]

\* The canned response of each question of the model, computed once.
DemoResponseOf == [q \in Questions |-> _get_demo_response(q)]

\* len(query_words.intersection(content_words)) / len(query_words), kept as
\* a fraction; the division raises ZeroDivisionError when den = 0.
Relevance(query_words, content_words) ==
    [num |-> Cardinality(query_words \cap content_words),
     den |-> Cardinality(query_words)]

\* relevance >= 0.1
AboveThresholdInclusive(rel) == 10 * rel.num >= rel.den

\* relevance > 0.1 (num/den and 0.1 are rounded the same way, so the float
\* comparison is the comparison of the fractions)

AboveThreshold(rel) == 10 * rel.num > rel.den

\* a > b on relevances
Greater(a, b) == a.num * b.den > b.num * a.den

\* One step of the stable descending sort: x goes behind every element that
\* is not smaller than it.
RECURSIVE InsertDesc(_, _)
InsertDesc(sorted, x) ==
    IF sorted = << >> THEN << x >>
    ELSE IF Greater(x.relevance, Head(sorted).relevance)
         THEN << x >> \o sorted
         ELSE << Head(sorted) >> \o InsertDesc(Tail(sorted), x)

\* relevant_chunks.sort(key=lambda x: x[1], reverse=True)
RECURSIVE SortDescFrom(_, _, _)
SortDescFrom(list, i, sorted) ==
    IF i > Len(list) THEN sorted
    ELSE SortDescFrom(list, i + 1, InsertDesc(sorted, list[i]))

SortDesc(list) == SortDescFrom(list, 1, << >>)

\* relevant_chunks without the slice
TakeAll(list) == list

\* relevant_chunks[:3]

Take(list) == SubSeq(list, 1, IF Len(list) < TopK THEN Len(list) ELSE TopK)

\* The loop over self.demo_documents of _demo_query, its sort and its slice.
\* raised: the division by len(query_words) raised ZeroDivisionError.
Retrieve(query, docs) ==
    LET query_words == QueryWords[query]
        scored == [i \in 1..Len(docs) |->
                    [doc |-> docs[i],
                     relevance |-> Relevance(query_words,
                                       ContentWords[docs[i].page_content])]]
        relevant_chunks ==
            SortDesc(SelectSeq(scored, LAMBDA x : AboveThreshold(x.relevance)))
        top == Take(relevant_chunks)
    IN  IF docs # << >> /\ query_words = {}
        THEN [raised |-> TRUE, context_chunks |-> << >>]
        ELSE [raised |-> FALSE,
              context_chunks |-> [i \in 1..Len(top) |-> top[i].doc]]

\* sources.append({...}) for each context chunk
SourcesOf(chunks) ==
    [i \in 1..Len(chunks) |->
        [document    |-> chunks[i].source,
         page_number |-> chunks[i].page_number,
         chunk_id    |-> chunks[i].chunk_id,
         relevance   |-> "high"]]

\* the dict returned at the end of _demo_query and of _pinecone_query
Answer(answer, chunks) ==
    [answer |-> answer, sources |-> SourcesOf(chunks),
     context_used |-> Len(chunks)]

\* the dict returned by query()'s except clause
ErrorResponse ==
    [answer |-> "error", sources |-> << >>, error |-> TRUE]

QueryDone(query, context_chunks, llm_calls, result) ==
    [pc |-> "done", op |-> "query", query |-> query,
     context_chunks |-> context_chunks, llm_calls |-> llm_calls,
     result |-> result]

\* The coroutine after query() has run, in demo mode, up to its first await
\* or its return.
DemoQueryTask(query) ==
    LET r == Retrieve(query, demo_documents)
        context_chunks == r.context_chunks
    IN  IF r.raised
        THEN QueryDone(query, << >>, 0, ErrorResponse)
        ELSE IF context_chunks = << >>
        THEN QueryDone(query, << >>, 0, DemoResponseOf[query])
        ELSE IF gemini_api_key
        THEN [pc |-> "llm", op |-> "query", query |-> query,
              context_chunks |-> context_chunks, llm_calls |-> 1]
        ELSE QueryDone(query, context_chunks, 0,
                       Answer("simple", context_chunks))

\* A query that also drops the chunks it did not select.
DemoQueryCallEvicts(t, query) ==
    /\ tasks[t].pc = "idle"
    /\ demo_mode
    /\ tasks' = [tasks EXCEPT ![t] = DemoQueryTask(query)]
    /\ demo_documents' = Retrieve(query, demo_documents).context_chunks
    /\ UNCHANGED <<gemini_api_key, pinecone_api_key, demo_mode,
                   documents, vectorstore>>

\* query() -> _demo_query()
DemoQueryCall(t, query) ==
    /\ tasks[t].pc = "idle"
    /\ demo_mode
    /\ tasks' = [tasks EXCEPT ![t] = DemoQueryTask(query)]
    /\ UNCHANGED <<gemini_api_key, pinecone_api_key, demo_mode,
                   demo_documents, documents, vectorstore>>

\* `await asyncio.to_thread(self.llm.invoke, prompt)` returns
QueryLLMReturned(t) ==
    /\ tasks[t].pc = "llm"
    /\ tasks' = [tasks EXCEPT ![t] =
                    QueryDone(tasks[t].query, tasks[t].context_chunks,
                              tasks[t].llm_calls,
                              Answer("llm", tasks[t].context_chunks))]
    /\ UNCHANGED <<gemini_api_key, pinecone_api_key, demo_mode,
                   demo_documents, documents, vectorstore>>
    /\ UNCHANGED requests

\* A failed language-model call that is tried a second time before giving up.
QueryLLMFailedRetries(t) ==
    /\ tasks[t].pc = "llm"
    /\ tasks' = [tasks EXCEPT ![t] =
                    QueryDone(tasks[t].query, tasks[t].context_chunks,
                              tasks[t].llm_calls + 1, ErrorResponse)]
    /\ UNCHANGED <<gemini_api_key, pinecone_api_key, demo_mode,
                   demo_documents, documents, vectorstore>>
    /\ UNCHANGED requests

\* the language-model call raises; query() catches it
QueryLLMFailed(t) ==
    /\ tasks[t].pc = "llm"
    /\ tasks' = [tasks EXCEPT ![t] =
                    QueryDone(tasks[t].query, tasks[t].context_chunks,
                              tasks[t].llm_calls, ErrorResponse)]
    /\ UNCHANGED <<gemini_api_key, pinecone_api_key, demo_mode,
                   demo_documents, documents, vectorstore>>
    /\ UNCHANGED requests

\* query() in production mode suspends at `await asyncio.to_thread(qa_chain, ...)`
PineconeQueryCall(t, query) ==
    /\ tasks[t].pc = "idle"
    /\ ~demo_mode
    /\ tasks' = [tasks EXCEPT ![t] =
                    [pc |-> "chain", op |-> "query", query |-> query]]
    /\ UNCHANGED <<gemini_api_key, pinecone_api_key, demo_mode,
                   demo_documents, documents, vectorstore>>

Min(a, b) == IF a < b THEN a ELSE b

\* The retriever's answers: k of the stored chunks (all of them when fewer
\* are stored). Which ones is the index's choice; they are listed here in
\* stored order, the index's ranking not being modelled.
SimilaritySearch(store, k) ==
    { SelectSeq([i \in 1..Len(store) |-> [i |-> i, doc |-> store[i]]],
                LAMBDA x : x.i \in S) :
        S \in {S \in SUBSET (1..Len(store)) :
                  Cardinality(S) = Min(k, Len(store))} }

\* the chain returns: its source documents become the sources
PineconeQueryReturned(t) ==
    /\ tasks[t].pc = "chain"
    /\ \E found \in SimilaritySearch(vectorstore, RetrieverK) :
          LET source_documents == [i \in 1..Len(found) |-> found[i].doc]
          IN  tasks' = [tasks EXCEPT ![t] =
                 QueryDone(tasks[t].query, source_documents, 1,
                           Answer("llm", source_documents))]
    /\ UNCHANGED <<gemini_api_key, pinecone_api_key, demo_mode,
                   demo_documents, documents, vectorstore>>
    /\ UNCHANGED requests

\* the chain raises; _pinecone_query re-raises and query() catches it
PineconeQueryFailed(t) ==
    /\ tasks[t].pc = "chain"
    /\ tasks' = [tasks EXCEPT ![t] =
                    QueryDone(tasks[t].query, << >>, 1, ErrorResponse)]
    /\ UNCHANGED <<gemini_api_key, pinecone_api_key, demo_mode,
                   demo_documents, documents, vectorstore>>
    /\ UNCHANGED requests

---------------------------------------------------------------------------
(* get_status *)

get_status ==
    [mode |-> IF demo_mode THEN "demo" ELSE "production",
     documents_count |-> Cardinality(DOMAIN documents),
     demo_chunks |-> IF demo_mode THEN Len(demo_documents) ELSE 0,
     gemini_configured |-> gemini_api_key,
     pinecone_configured |-> pinecone_api_key /\ ~demo_mode,
     ai_provider |-> "Google Gemini"]

StatusCall(t) ==
    /\ tasks[t].pc = "idle"
    /\ tasks' = [tasks EXCEPT ![t] =
                    [pc |-> "done", op |-> "get_status", result |-> get_status]]
    /\ UNCHANGED <<gemini_api_key, pinecone_api_key, demo_mode,
                   demo_documents, documents, vectorstore>>

---------------------------------------------------------------------------
(* HTTP layer: upload_documents and query_documents *)

NoRequest == [pc |-> "idle", handler |-> "none"]

\* UploadFile objects: the PDF behind it, its client filename, its size in MB
UploadFile(file, filename, size_mb) ==
    [file |-> file, filename |-> filename, size_mb |-> size_mb]

HttpFilenames == Filenames \cup {"notes.txt"}

FilenameChars ==
    [f \in HttpFilenames |->
        CASE f = "a.pdf" -> <<"a", ".", "p", "d", "f">>
          [] f = "b.pdf" -> <<"b", ".", "p", "d", "f">>
          [] OTHER       -> <<"n", "o", "t", "e", "s", ".", "t", "x", "t">>]

\* the multipart bodies that are posted to /upload/
Batches ==
    { << >>,
      << UploadFile("tesla", "a.pdf", 1), UploadFile("blank", "b.pdf", 1) >>,
      << UploadFile("corrupt", "a.pdf", 1), UploadFile("manual", "b.pdf", 1) >>,
      << UploadFile("manual", "b.pdf", 1), UploadFile("scanned", "a.pdf", 1) >>,
      << UploadFile("tesla", "a.pdf", 1), UploadFile("tesla", "notes.txt", 1) >>,
      << UploadFile("tesla", "notes.txt", 1) >>,
      << UploadFile("tesla", "a.pdf", 51) >> }

\* 50 * 1024 * 1024 bytes, in MB
MaxUploadMb == 50

\* (include_sources, max_sources) of the posted QueryRequest bodies
QueryParams == { <<TRUE, 5>>, <<TRUE, 2>>, <<FALSE, 5>> }

\* file.filename.lower().endswith('.pdf')
IsPdfFilename(filename) ==
    LET name == lower(FilenameChars[filename])
    IN  /\ Len(name) >= 4
        /\ SubSeq(name, Len(name) - 3, Len(name)) = <<".", "p", "d", "f">>

RECURSIVE lstrip(_)
lstrip(s) ==
    IF s = << >> \/ Head(s) \notin Whitespace THEN s ELSE lstrip(Tail(s))

RECURSIVE rstrip(_)
rstrip(s) ==
    IF s = << >> \/ s[Len(s)] \notin Whitespace
    THEN s ELSE rstrip(SubSeq(s, 1, Len(s) - 1))

\* str.strip()
strip(s) == rstrip(lstrip(s))

\* raise HTTPException(status_code, detail), as the exception handler answers it
HTTPException(request, status_code, detail) ==
    [request EXCEPT !.pc = "responded"] @@
    [status_code |-> status_code, body |-> [detail |-> detail]]

\* pages of the files of a batch from position i on
RECURSIVE BatchPages(_, _)
BatchPages(files, i) ==
    IF i > Len(files) THEN 0
    ELSE Len(FilePages[files[i].file]) + BatchPages(files, i + 1)

\* chunks that uploads in flight may still hand to add_document
RECURSIVE RequestPending(_)
RequestPending(S) ==
    IF S = {} THEN 0
    ELSE LET t == CHOOSE x \in S : TRUE
             r == requests[t]
         IN  (IF r.handler = "upload" /\ r.pc \in {"read", "add"}
              THEN BatchPages(r.files, IF r.pc = "read" THEN r.i ELSE r.i + 1)
              ELSE 0)
             + RequestPending(S \ {t})

\* The head of `for file in files`: file i is validated and the handler
\* suspends at `await file.read()`; after the last file the handler returns
\* the UploadResponse.
UploadLoop(files, i, uploaded_files, processing_details) ==
    LET request == [pc |-> "read", handler |-> "upload", files |-> files,
                    i |-> i, uploaded_files |-> uploaded_files,
                    processing_details |-> processing_details]
    IN  IF i > Len(files)
        THEN [request EXCEPT !.pc = "responded"] @@
             [status_code |-> 200,
              body |-> [uploaded_files |-> uploaded_files,
                        processing_details |-> processing_details,
                        total_files |-> Len(uploaded_files)]]
        ELSE IF ~IsPdfFilename(files[i].filename)
        THEN HTTPException(request, 400, "Only PDF files are supported")
        ELSE request

\* POST /upload/ arrives
UploadRequest(t, files) ==
    /\ tasks[t].pc = "idle"
    /\ requests[t].pc = "idle"
    /\ Len(demo_documents) + Len(vectorstore) + PendingChunks(Tasks)
         + RequestPending(Tasks) + BatchPages(files, 1) <= MaxChunks
    /\ requests' = [requests EXCEPT ![t] =
                       IF files = << >>
                       THEN HTTPException([pc |-> "read", handler |-> "upload",
                                           files |-> files, i |-> 1,
                                           uploaded_files |-> << >>,
                                           processing_details |-> << >>],
                                          400, "No files provided")
                       ELSE UploadLoop(files, 1, << >>, << >>)]
    /\ UNCHANGED <<gemini_api_key, pinecone_api_key, demo_mode,
                   demo_documents, documents, vectorstore, tasks>>

\* `await file.read()` returns: the size is checked, the file is copied to a
\* temporary file and engine.add_document is called.
UploadRead(t) ==
    /\ requests[t].pc = "read"
    /\ LET file == requests[t].files[requests[t].i]
       IN  IF file.size_mb > MaxUploadMb
           THEN /\ requests' = [requests EXCEPT ![t] =
                                   HTTPException(requests[t], 413, "too large")]
                /\ UNCHANGED <<gemini_api_key, pinecone_api_key, demo_mode,
                               demo_documents, documents, vectorstore, tasks>>
           ELSE /\ requests' = [requests EXCEPT ![t].pc = "add"]
                /\ AddDocumentCall(t, file.file, file.filename)

\* `await engine.add_document(...)` ends: by returning, and the loop goes on
\* with the next file, or by raising, and the handler raises HTTPException.
UploadFileDone(t) ==
    /\ requests[t].pc = "add"
    /\ tasks[t].pc = "done"
    /\ LET r    == requests[t]
           file == r.files[r.i]
       IN  requests' = [requests EXCEPT ![t] =
              IF tasks[t].raised
              THEN HTTPException(
                      [r EXCEPT !.processing_details =
                          SetItem(r.processing_details, file.filename,
                                  [size_mb |-> file.size_mb,
                                   status |-> "failed"])],
                      500, "Error processing")
              ELSE UploadLoop(r.files, r.i + 1,
                              Append(r.uploaded_files, file.filename),
                              SetItem(r.processing_details, file.filename,
                                      [size_mb |-> file.size_mb,
                                       status |-> "success"]))]
    /\ tasks' = [tasks EXCEPT ![t] = Idle]
    /\ UNCHANGED <<gemini_api_key, pinecone_api_key, demo_mode,
                   demo_documents, documents, vectorstore>>

\* A variant that returns every source whatever include_sources says.
LimitSourcesAlways(sources, include_sources, max_sources) ==
    SubSeq(sources, 1, Min(Len(sources), max_sources))

\* result.get("sources", [])[:request.max_sources] if request.include_sources
\* else []
LimitSources(sources, include_sources, max_sources) ==
    IF include_sources
    THEN SubSeq(sources, 1, Min(Len(sources), max_sources))
    ELSE << >>

\* QueryResponse(...): a field that is None is a field the record lacks
QueryResponse(result, include_sources, max_sources) ==
    [k \in {"answer", "sources"}
             \cup (DOMAIN result \cap {"context_used", "suggestion"}) |->
        IF k = "sources"
        THEN LimitSources(result.sources, include_sources, max_sources)
        ELSE result[k]]

\* POST /query/ arrives: a blank query is refused, any other is handed to
\* engine.query.
QueryRequest(t, query, include_sources, max_sources) ==
    /\ requests[t].pc = "idle"
    /\ LET request == [pc |-> "query", handler |-> "query",
                       include_sources |-> include_sources,
                       max_sources |-> max_sources]
       IN  IF strip(query) = << >>
           THEN /\ tasks[t].pc = "idle"
                /\ requests' = [requests EXCEPT ![t] =
                       HTTPException(request, 400, "Query cannot be empty")]
                /\ UNCHANGED <<gemini_api_key, pinecone_api_key, demo_mode,
                               demo_documents, documents, vectorstore, tasks>>
           ELSE /\ requests' = [requests EXCEPT ![t] = request]
                /\ DemoQueryCall(t, query) \/ PineconeQueryCall(t, query)

\* `await engine.query(...)` returns and the handler returns the QueryResponse
QueryRespond(t) ==
    /\ requests[t].pc = "query"
    /\ tasks[t].pc = "done"
    /\ requests' = [requests EXCEPT ![t] =
                       [requests[t] EXCEPT !.pc = "responded"] @@
                       [status_code |-> 200,
                        body |-> QueryResponse(tasks[t].result,
                                               requests[t].include_sources,
                                               requests[t].max_sources)]]
    /\ tasks' = [tasks EXCEPT ![t] = Idle]
    /\ UNCHANGED <<gemini_api_key, pinecone_api_key, demo_mode,
                   demo_documents, documents, vectorstore>>

\* The response is sent; the slot is free again.
RequestReturn(t) ==
    /\ requests[t].pc = "responded"
    /\ requests' = [requests EXCEPT ![t] = NoRequest]
    /\ UNCHANGED <<gemini_api_key, pinecone_api_key, demo_mode,
                   demo_documents, documents, vectorstore, tasks>>

---------------------------------------------------------------------------
\* RAGEngine.__init__: the keys come from the environment; demo mode unless
\* both keys are set and Pinecone could be initialised.
Init ==
    /\ gemini_api_key \in BOOLEAN
    /\ pinecone_api_key \in BOOLEAN
    /\ demo_mode \in BOOLEAN
    /\ (~pinecone_api_key \/ ~gemini_api_key) => demo_mode
    /\ demo_documents = << >>
    /\ documents = << >>
    /\ vectorstore = << >>
    /\ tasks = [t \in Tasks |-> Idle]
    /\ requests = [t \in Tasks |-> NoRequest]

Next ==
    \E t \in Tasks :
        \/ \E u \in Uploads :
              AddDocumentCall(t, u[1], u[2]) /\ UNCHANGED requests
        \/ AddDocumentLoaded(t)
        \/ AddDocumentStored(t)
        \/ AddDocumentRecorded(t)
        \/ AddDocumentStoreFailed(t)
        \/ \E query \in Questions :
              DemoQueryCall(t, query) /\ UNCHANGED requests
        \/ QueryLLMReturned(t)
        \/ QueryLLMFailed(t)
        \/ \E query \in Questions :
              PineconeQueryCall(t, query) /\ UNCHANGED requests
        \/ PineconeQueryReturned(t)
        \/ PineconeQueryFailed(t)
        \/ StatusCall(t) /\ UNCHANGED requests
        \/ Return(t)

Spec == Init /\ [][Next]_vars

\* The engine as the HTTP handlers drive it.
NextHttp ==
    \E t \in Tasks :
        \/ \E files \in Batches : UploadRequest(t, files)
        \/ UploadRead(t)
        \/ UploadFileDone(t)
        \/ \E query \in Questions : \E p \in QueryParams :
              QueryRequest(t, query, p[1], p[2])
        \/ QueryRespond(t)
        \/ RequestReturn(t)
        \/ AddDocumentLoaded(t)
        \/ AddDocumentStored(t)
        \/ AddDocumentRecorded(t)
        \/ AddDocumentStoreFailed(t)
        \/ QueryLLMReturned(t)
        \/ QueryLLMFailed(t)
        \/ PineconeQueryReturned(t)
        \/ PineconeQueryFailed(t)

SpecHttp == Init /\ [][NextHttp]_vars

---------------------------------------------------------------------------
(* Properties *)

IsPrefix(a, b) == Len(a) <= Len(b) /\ SubSeq(b, 1, Len(a)) = a

\* task t's add_document call ends in this step
AddEnds(t) ==
    /\ tasks[t].op = "add_document"
    /\ tasks[t].pc \in {"load", "store", "stored"}
    /\ tasks'[t].pc = "done"

\* all chunks the call of task t produces for its document
Produced(t) ==
    AddMetadata(split_documents(FilePages[tasks[t].file]), tasks[t].filename)

AddDone(t) == tasks[t].pc = "done" /\ tasks[t].op = "add_document"

QueryIsDone(t) == tasks[t].pc = "done" /\ tasks[t].op = "query"

C2_FailedRecord ==
    [][ \A t \in Tasks :
           (AddEnds(t) /\ tasks'[t].raised) =>
              /\ tasks[t].filename \in DOMAIN documents'
              /\ documents'[tasks[t].filename].status = "failed"
      ]_vars

\* C3: a document without extractable text never gets a DocumentRecord with
\* status `processed`: every processed record counts at least one chunk.
C3_EmptyDocumentFails ==
    \A f \in DOMAIN documents :
        documents[f].status = "processed" => documents[f].chunks > 0

\* C4: a successful re-ingestion of a filename that already has a record
\* strictly increases the number of stored chunks, overwrites the record and
\* does not add a record.
C4_ReingestGrows ==
    [][ \A t \in Tasks :
           (AddEnds(t) /\ ~tasks'[t].raised
              /\ tasks[t].filename \in DOMAIN documents) =>
              /\ IF demo_mode
                 THEN Len(demo_documents') > Len(demo_documents)
                 ELSE Len(tasks[t].chunks) > 0
              /\ DOMAIN documents' = DOMAIN documents
              /\ documents'[tasks[t].filename].chunks = Len(Produced(t))
      ]_vars

\* C5: the chunk sequence only grows by append, only a successful ingestion
\* changes the chunk sequence or the record map, and without one get_status
\* keeps returning the same thing.
C5_AppendOnly ==
    [][ /\ IsPrefix(demo_documents, demo_documents')
        /\ (\A t \in Tasks : ~(AddEnds(t) /\ ~tasks'[t].raised)) =>
              /\ demo_documents' = demo_documents
              /\ documents' = documents
              /\ get_status' = get_status
      ]_vars

\* a query and a status call have ended on a knowledge base that holds chunks
C5_Witness ==
    /\ demo_documents # << >>
    /\ \E t1, t2 \in Tasks :
          /\ QueryIsDone(t1)
          /\ tasks[t2].pc = "done" /\ tasks[t2].op = "get_status"
          /\ tasks[t2].result.demo_chunks = Len(demo_documents)

\* C6: the relevance of every chunk for every question is a number in
\* [0, 1], and a query with zero words ends on the fallback path, not on the
\* error path.
C6_ScoreRange ==
    /\ \A q \in Questions : \A i \in DOMAIN demo_documents :
          LET rel == Relevance(QueryWords[q],
                               ContentWords[demo_documents[i].page_content])
          IN  rel.den > 0 => (0 <= rel.num /\ rel.num <= rel.den)
    /\ \A t \in Tasks :
          (demo_mode /\ QueryIsDone(t) /\ QueryWords[tasks[t].query] = {}) =>
             /\ "error" \notin DOMAIN tasks[t].result
             /\ tasks[t].result = DefaultResponse

\* the number of words question q shares with chunk i of the chunk sequence
Overlap(q, docs, i) ==
    Cardinality(QueryWords[q] \cap ContentWords[docs[i].page_content])

\* the chunks whose relevance for q is strictly greater than 0.1
RelevantIndexes(q, docs) ==
    {i \in DOMAIN docs :
        /\ QueryWords[q] # {}
        /\ 10 * Overlap(q, docs, i) > Cardinality(QueryWords[q])}

\* the place of chunk i among them: higher relevance first, then insertion
\* order
RankOf(q, docs, i) ==
    1 + Cardinality({j \in RelevantIndexes(q, docs) :
                        \/ Overlap(q, docs, j) > Overlap(q, docs, i)
                        \/ Overlap(q, docs, j) = Overlap(q, docs, i) /\ j < i})

IsTopRanked(q, docs, ctx) ==
    /\ Len(ctx) = Min(TopK, Cardinality(RelevantIndexes(q, docs)))
    /\ \A k \in 1..Len(ctx) :
          \E i \in RelevantIndexes(q, docs) :
              RankOf(q, docs, i) = k /\ ctx[k] = docs[i]

\* C7: in in-memory mode the context a query selects is the first 3 of the
\* chunks with relevance > 0.1, by relevance descending, equal relevances in
\* insertion order.
C7_ContextSelection ==
    [][ \A t \in Tasks :
           (demo_mode /\ tasks[t].pc = "idle" /\ tasks'[t].op = "query") =>
              IsTopRanked(tasks'[t].query, demo_documents,
                          tasks'[t].context_chunks)
      ]_vars

\* one query cut four relevant chunks down to three, and another dropped a
\* chunk whose relevance is exactly 0.1
C7_Witness ==
    /\ demo_mode
    /\ Len(demo_documents) = 4
    /\ \E t1, t2 \in Tasks :
          /\ QueryIsDone(t1) /\ tasks[t1].query = Q5
          /\ Len(tasks[t1].context_chunks) = 3
          /\ Cardinality(RelevantIndexes(Q5, demo_documents)) = 4
          /\ QueryIsDone(t2) /\ tasks[t2].query = Q10
          /\ tasks[t2].context_chunks # << >>
          /\ \E i \in DOMAIN demo_documents :
                /\ 10 * Overlap(Q10, demo_documents, i)
                      = Cardinality(QueryWords[Q10])
                /\ \A k \in DOMAIN tasks[t2].context_chunks :
                      tasks[t2].context_chunks[k] # demo_documents[i]

KeywordQuestions ==
    {q \in Questions :
        \E k \in {Tesla, Revenue, Reset, Console} : IsSubstring(k, lower(q))}

\* C9 as stated: in in-memory mode a query against an empty knowledge base
\* returns the generic fallback answer with no sources, whatever the question.
C9_EmptyFallback ==
    \A t \in Tasks :
        (demo_mode /\ QueryIsDone(t) /\ demo_documents = << >>) =>
           /\ tasks[t].result.answer = "fallback"
           /\ tasks[t].result.sources = << >>

\* C9, amended: in in-memory mode a query against an empty knowledge base
\* returns the generic fallback answer with no sources and a suggestion when
\* the question contains none of the keywords tesla, revenue, reset, console
\* (as a substring, case-insensitive), and otherwise a canned answer with
\* one hard-coded source.
C9_EmptyFallbackUnlessKeyword ==
    \A t \in Tasks :
        (demo_mode /\ QueryIsDone(t) /\ demo_documents = << >>) =>
           IF tasks[t].query \in KeywordQuestions
           THEN /\ tasks[t].result.answer
                      \in {"demo_tesla", "demo_revenue", "demo_reset",
                           "demo_console"}
                /\ Len(tasks[t].result.sources) = 1
           ELSE /\ tasks[t].result.answer = "fallback"
                /\ tasks[t].result.sources = << >>
                /\ "suggestion" \in DOMAIN tasks[t].result

\* both kinds of question have been answered from an empty knowledge base
C9_Witness ==
    /\ demo_mode
    /\ demo_documents = << >>
    /\ \E t1, t2 \in Tasks :
          /\ QueryIsDone(t1) /\ tasks[t1].query = QWhy
          /\ QueryIsDone(t2) /\ tasks[t2].query = QTeslas

\* C10: in in-memory mode a query that selects no context (empty knowledge
\* base, or no chunk above the threshold) returns the fallback response and
\* never invokes the language model; the language model is invoked only for
\* a non-empty context, at most once per query.
C10_NoModelCallWithoutContext ==
    \A t \in Tasks :
        (demo_mode /\ tasks[t].op = "query") =>
           /\ tasks[t].llm_calls <= 1
           /\ tasks[t].llm_calls = 1 => tasks[t].context_chunks # << >>
           /\ (tasks[t].pc = "done" /\ tasks[t].context_chunks = << >>) =>
                 /\ tasks[t].llm_calls = 0
                 /\ tasks[t].result = DemoResponseOf[tasks[t].query]

\* C11: a failure of the language-model call is not propagated: the step
\* that ends the call ends query() with a result, which is either the model's
\* answer or the error answer (error text, no sources, error flag set); the
\* model was invoked exactly once, and the chunk sequence and the record map
\* are as before.
C11_ModelFailureIsAnswered ==
    [][ \A t \in Tasks :
           (tasks[t].op = "query" /\ tasks[t].pc \in {"llm", "chain"}
              /\ tasks'[t] # tasks[t]) =>
              /\ tasks'[t].pc = "done" /\ tasks'[t].op = "query"
              /\ tasks'[t].llm_calls = 1
              /\ \/ /\ "error" \notin DOMAIN tasks'[t].result
                    /\ tasks'[t].result.answer = "llm"
                 \/ /\ "error" \in DOMAIN tasks'[t].result
                    /\ tasks'[t].result.error
                    /\ tasks'[t].result.answer = "error"
                    /\ tasks'[t].result.sources = << >>
              /\ demo_documents' = demo_documents
              /\ documents' = documents
      ]_vars

\* an in-memory query with a selected context has ended with the error answer
\* after one call of the language model
C11_Witness ==
    /\ demo_mode
    /\ demo_documents # << >>
    /\ \E t \in Tasks :
          /\ QueryIsDone(t)
          /\ tasks[t].context_chunks # << >>
          /\ tasks[t].llm_calls = 1
          /\ "error" \in DOMAIN tasks[t].result

\* C12: appending a document's chunks and upserting its DocumentRecord is one
\* atomic step: every step in which a call of add_document that does not
\* raise changes a chunk store appends all of the chunks produced for the
\* document, as one block, and writes the document's record in the same step.
C12_AppendAndRecordAtomic ==
    [][ \A t \in Tasks :
           (/\ tasks[t].op = "add_document"
            /\ tasks'[t] # tasks[t]
            /\ demo_documents' # demo_documents \/ vectorstore' # vectorstore
            /\ ~(tasks'[t].pc = "done" /\ tasks'[t].raised)) =>
              /\ IF demo_mode
                 THEN demo_documents' = demo_documents \o Produced(t)
                 ELSE vectorstore' = vectorstore \o Produced(t)
              /\ tasks[t].filename \in DOMAIN documents'
              /\ documents'[tasks[t].filename] =
                    DocumentRecord(Produced(t), FilePages[tasks[t].file])
      ]_vars

\* C13: a document that fails inside an upload batch does not end the batch:
\* whenever add_document failed for a file of a batch, the handler answers
\* with the batch response, every file of the batch has its entry in the
\* response's processing details, and the failed one is reported as failed.
C13_BatchReportsEachDocument ==
    \A t \in Tasks :
        (/\ requests[t].handler = "upload"
         /\ requests[t].pc = "responded"
         /\ \E f \in DOMAIN requests[t].processing_details :
               requests[t].processing_details[f].status = "failed") =>
           /\ requests[t].status_code = 200
           /\ \A i \in 1..Len(requests[t].files) :
                 requests[t].files[i].filename
                    \in DOMAIN requests[t].body.processing_details
           /\ \E f \in DOMAIN requests[t].body.processing_details :
                 requests[t].body.processing_details[f].status = "failed"

\* C14 (as stated): every query that ended with a non-empty selected context
\* has a result with one source per context chunk and with context_used equal
\* to the number of context chunks.
C14_SourcePerContextChunk ==
    \A t \in Tasks :
        (QueryIsDone(t) /\ tasks[t].context_chunks # << >>) =>
           /\ Len(tasks[t].result.sources) = Len(tasks[t].context_chunks)
           /\ "context_used" \in DOMAIN tasks[t].result
           /\ tasks[t].result.context_used = Len(tasks[t].context_chunks)

\* C14: for every query whose selected context is non-empty and whose
\* language-model call did not fail, the engine result has one source per
\* context chunk, in the order of the context, each with the chunk's document,
\* page number and chunk index and the relevance "high", and context_used is
\* the number of context chunks, at least 1; the HTTP response returns the
\* first max_sources of these sources, or none when include_sources is false,
\* and the same context_used.
C14_SourcePerContextChunkUnlessModelFails ==
    [][ \A t \in Tasks :
           (/\ requests[t].pc = "query"
            /\ requests'[t].pc = "responded"
            /\ tasks[t].context_chunks # << >>
            /\ "error" \notin DOMAIN tasks[t].result) =>
              LET context_chunks == tasks[t].context_chunks
                  result == tasks[t].result
                  body   == requests'[t].body
                  n      == Len(context_chunks)
                  m      == requests[t].max_sources
              IN  /\ Len(result.sources) = n
                  /\ \A i \in 1..n :
                        result.sources[i] =
                           [document    |-> context_chunks[i].source,
                            page_number |-> context_chunks[i].page_number,
                            chunk_id    |-> context_chunks[i].chunk_id,
                            relevance   |-> "high"]
                  /\ result.context_used = n /\ n >= 1
                  /\ body.context_used = result.context_used
                  /\ IF requests[t].include_sources
                     THEN /\ Len(body.sources) = IF n < m THEN n ELSE m
                          /\ \A i \in 1..Len(body.sources) :
                                body.sources[i] = result.sources[i]
                     ELSE body.sources = << >>
      ]_vars

\* a query over three context chunks was answered with two sources, another
\* without sources
C14_Witness ==
    \E t1, t2 \in Tasks :
        /\ requests[t1].handler = "query" /\ requests[t1].pc = "responded"
        /\ requests[t1].status_code = 200
        /\ requests[t1].include_sources /\ requests[t1].max_sources = 2
        /\ "context_used" \in DOMAIN requests[t1].body
        /\ requests[t1].body.context_used = 3
        /\ Len(requests[t1].body.sources) = 2
        /\ requests[t2].handler = "query" /\ requests[t2].pc = "responded"
        /\ requests[t2].status_code = 200
        /\ ~requests[t2].include_sources
        /\ "context_used" \in DOMAIN requests[t2].body
        /\ requests[t2].body.context_used >= 1
        /\ requests[t2].body.sources = << >>

=============================================================================
